---- MODULE Spec2Model ----
(***************************************************************************)
(* Model of legal_assistant.py: a Streamlit script whose main() is re-run  *)
(* on every user interaction.  It extracts the text of an uploaded PDF     *)
(* through a temporary file, builds two fixed chat-completion requests     *)
(* (summary, Q&A) and keeps one cached provider client per process.        *)
(*                                                                         *)
(* Python values are records [type, val]: a str is [type |-> "str"] with   *)
(* val the sequence of its pieces (characters for PDF text, fragments for  *)
(* prompts and messages), None is [type |-> "None"], and a raised          *)
(* exception is [type |-> "raise"] with val the text of str(e).            *)
(***************************************************************************)
EXTENDS Integers, Sequences, FiniteSets, TLC

VARIABLES
    pc,              \* position of the current run (or call)
    env_key,         \* os.environ["OPENAI_API_KEY"]; NoKey when unset
    secrets_key,     \* st.secrets["general"]["openai_api_key"]; NoKey when absent
    client_cache,    \* the entry st.cache_resource holds for init_openai_client
    constructed,     \* how many times openai.OpenAI(...) has been constructed
    client,          \* main()'s local: the client init_openai_client returned
    rendered,        \* the elements the current run has sent to the page, in order
    model_choice,    \* main()'s local: the selectbox value
    uploaded_file,   \* main()'s local: the file_uploader value (NoFile when none)
    analyze,         \* whether "Analyze Document" was clicked in this run
    fs,              \* the temporary files that exist on disk
    tmp_file_path,   \* the temporary file the last extraction created (NoPath if none)
    document_text,   \* the value the last extract_text_from_pdf call returned
    raised,          \* TRUE when the last call let an exception reach its caller
    io_fault,        \* the fault of the environment during the last extraction
    question,        \* main()'s local: the text_area value
    get_answer,      \* whether "Get Answer" was clicked in this run
    api_calls,       \* the provider calls of the current run, in order
    response,        \* what the provider produced for the last call
    result           \* what the last get_legal_summary / get_legal_answer returned

vars == <<pc, env_key, secrets_key, client_cache, constructed, client, rendered,
          model_choice, uploaded_file, analyze, fs, tmp_file_path, document_text,
          raised, io_fault, question, get_answer, api_calls,
          response, result>>

-----------------------------------------------------------------------------
(* Bounds of the model *)

\* the longest text one PDF page yields in the extraction specification
MaxTextLen == 1
\* the largest number of pages of a PDF in the extraction specification
MaxPages == 3

-----------------------------------------------------------------------------
(* Python values *)

Str(s) == [type |-> "str", val |-> s]
None == [type |-> "None", val |-> <<>>]
Raise(detail) == [type |-> "raise", val |-> detail]

\* an element a st.* call sends to the page
El(kind, body) == [kind |-> kind, body |-> body]

\* bool(v) of an Optional[str]
Truthy(v) == v.type = "str" /\ v.val # <<>>

\* the characters str.strip() removes
Whitespace == {" ", "\n", "\t"}

RECURSIVE LStrip(_)
LStrip(s) ==
    IF s # <<>> /\ Head(s) \in Whitespace THEN LStrip(Tail(s)) ELSE s

RECURSIVE RStrip(_)
RStrip(s) ==
    IF s # <<>> /\ s[Len(s)] \in Whitespace
    THEN RStrip(SubSeq(s, 1, Len(s) - 1))
    ELSE s

\* str.strip()
Strip(s) == RStrip(LStrip(s))

\* s.startswith(p)
StartsWith(s, p) == Len(p) <= Len(s) /\ SubSeq(s, 1, Len(p)) = p

\* c * n
Rep(c, n) == [i \in 1..n |-> c]

SeqsUpTo(S, n) == UNION {[1..k -> S] : k \in 0..n}

-----------------------------------------------------------------------------
(* extract_text_from_pdf *)

NoFile == [kind |-> "none", pages |-> <<>>]
NoPath == "none"

\* the names tempfile.NamedTemporaryFile can give a new file
TmpNames == {"tmp1.pdf", "tmp2.pdf"}

\* what can go wrong outside the payload
IoFaults == {"ok", "create_fails", "write_fails", "unlink_fails"}

\* PageLoop with the separator added for every page, textless ones included
RECURSIVE PageLoopEveryPage(_, _, _)
PageLoopEveryPage(pages, i, text) ==
    IF i > Len(pages) THEN [exc |-> None, text |-> text]
    ELSE LET page_text == pages[i]
         IN  IF page_text.type = "raise" THEN [exc |-> page_text, text |-> text]
             ELSE PageLoopEveryPage(pages, i + 1, text \o page_text.val \o <<"\n">>)

\* the for loop over pdf.pages, from page i on, with text accumulated so far
RECURSIVE PageLoop(_, _, _)
PageLoop(pages, i, text) ==
    IF i > Len(pages) THEN [exc |-> None, text |-> text]
    ELSE LET page_text == pages[i]
         IN  IF page_text.type = "raise" THEN [exc |-> page_text, text |-> text]
             ELSE IF Truthy(page_text)
                  THEN PageLoop(pages, i + 1, text \o page_text.val \o <<"\n">>)
                  ELSE PageLoop(pages, i + 1, text)

\* pdfplumber.open(tmp_file_path): only a well-formed, unprotected PDF opens
PdfOpen(pdf_file) ==
    IF pdf_file.kind = "pdf" THEN None
    ELSE Raise(<<"cannot open ", pdf_file.kind>>)

\* ExtractFailed with an except clause that catches I/O errors only
ExtractFailedIoOnly(e, files, path) ==
    IF e.val[1] = "cannot open "
    THEN [ret |-> None, raised |-> TRUE, errors |-> <<>>, files |-> files,
          path |-> path]
    ELSE [ret    |-> Str(<<>>),
          raised |-> FALSE,
          errors |-> <<El("error", <<"Error extracting text from PDF: ">> \o e.val)>>,
          files  |-> files,
          path   |-> path]

\* the except clause: st.error(...) and return ""
ExtractFailed(e, files, path) ==
    [ret    |-> Str(<<>>),
     raised |-> FALSE,
     errors |-> <<El("error", <<"Error extracting text from PDF: ">> \o e.val)>>,
     files  |-> files,
     path   |-> path]

\* One call of extract_text_from_pdf(pdf_file), with name the file name the
\* temporary file gets (NoPath when no name is free), io the fault of the
\* environment and files the temporary files on disk before the call.
extract_text_from_pdf(pdf_file, name, io, files) ==
    IF io = "create_fails" \/ name = NoPath
    THEN ExtractFailed(Raise(<<"cannot create temporary file">>), files, NoPath)
    ELSE LET created == files \cup {name}
         IN  IF io = "write_fails"
             THEN ExtractFailed(Raise(<<"cannot write temporary file">>), created, name)
             ELSE IF PdfOpen(pdf_file).type = "raise"
             THEN ExtractFailed(PdfOpen(pdf_file), created, name)
             ELSE LET loop == PageLoop(pdf_file.pages, 1, <<>>)
                  IN  IF loop.exc.type = "raise"
                      THEN ExtractFailed(loop.exc, created, name)
                      ELSE IF io = "unlink_fails"
                      THEN ExtractFailed(Raise(<<"cannot unlink">>), created, name)
                      ELSE [ret    |-> Str(Strip(loop.text)),
                            raised |-> FALSE,
                            errors |-> <<>>,
                            files  |-> created \ {name},
                            path   |-> name]

-----------------------------------------------------------------------------
(* get_legal_summary and get_legal_answer *)

SummaryMaxTokens == 1500
AnswerMaxTokens == 1000
Temperature == "0.3"

SummarySystemPrompt == <<"You are a legal assistant specializing in Indian law. Your task is to summarize legal documents in plain English for non-lawyers. ...">>
AnswerSystemPrompt == <<"You are a legal assistant specializing in Indian law. Provide accurate, helpful information about Indian legal matters ...">>
SummaryUserPrefix == <<"Please provide a plain-English summary of this legal document:\n\n">>

SummaryMarker == <<"Error generating summary: ">>
AnswerMarker == <<"Error generating answer: ">>

\* SummaryRequest with the output budget chosen by model
SummaryRequestByModel(text, model) ==
    [model       |-> model,
     messages    |-> <<[role |-> "system", content |-> SummarySystemPrompt],
                       [role |-> "user", content |-> SummaryUserPrefix \o text]>>,
     max_tokens  |-> IF model = "gpt-4" THEN 4000 ELSE SummaryMaxTokens,
     temperature |-> Temperature]

\* the keyword arguments of client.chat.completions.create in get_legal_summary
SummaryRequest(text, model) ==
    [model       |-> model,
     messages    |-> <<[role |-> "system", content |-> SummarySystemPrompt],
                       [role |-> "user", content |-> SummaryUserPrefix \o text]>>,
     max_tokens  |-> SummaryMaxTokens,
     temperature |-> Temperature]

\* the keyword arguments of client.chat.completions.create in get_legal_answer
AnswerRequest(q, model) ==
    [model       |-> model,
     messages    |-> <<[role |-> "system", content |-> AnswerSystemPrompt],
                       [role |-> "user", content |-> q]>>,
     max_tokens  |-> AnswerMaxTokens,
     temperature |-> Temperature]

\* response.choices[0].message.content, where resp is what the provider
\* call produced: an exception, or a response object with its choices
CompletionText(resp) ==
    IF resp.type = "raise" THEN resp
    ELSE IF resp.choices = <<>> THEN Raise(<<"list index out of range">>)
    ELSE IF resp.choices[1].message.type = "None"
         THEN Raise(<<"'NoneType' object has no attribute 'content'">>)
    ELSE resp.choices[1].message.content

\* FlowReturn that returns str(e) without the marker
FlowReturnBare(marker, resp) ==
    LET v == CompletionText(resp)
    IN  IF v.type = "raise" THEN Str(v.val) ELSE v

\* try: return <completion text>  except Exception as e: return marker + str(e)
FlowReturn(marker, resp) ==
    LET v == CompletionText(resp)
    IN  IF v.type = "raise" THEN Str(marker \o v.val) ELSE v

\* get_legal_summary(client, document_text, model) when the provider answers
\* the request with resp: the call it issues and the value it returns
get_legal_summary(c, text, model, resp) ==
    [call |-> [fn |-> "get_legal_summary", client |-> c, model |-> model,
               request |-> SummaryRequest(text, model)],
     ret  |-> FlowReturn(SummaryMarker, resp)]

\* get_legal_answer(client, question, model), likewise
get_legal_answer(c, q, model, resp) ==
    [call |-> [fn |-> "get_legal_answer", client |-> c, model |-> model,
               request |-> AnswerRequest(q, model)],
     ret  |-> FlowReturn(AnswerMarker, resp)]

\* the model ids of the selectbox
Models == {"gpt-3.5-turbo", "gpt-4"}

\* what the provider call can produce
Message(content) == [type |-> "message", content |-> content]
Completions ==
    {Str(<<"Summary: ...">>), Str(<<>>),
     Str(SummaryMarker \o <<"quoted">>), Str(AnswerMarker \o <<"quoted">>)}
ProviderErrors ==
    {Raise(<<"Connection error.">>), Raise(<<"Error code: 401">>),
     Raise(<<"Error code: 429">>), Raise(<<>>)}
ProviderResponses ==
    {[type |-> "response", choices |-> <<>>],
     [type |-> "response", choices |-> <<[message |-> None]>>],
     [type |-> "response", choices |-> <<[message |-> Message(None)]>>]}
    \cup {[type |-> "response", choices |-> <<[message |-> Message(c)]>>] :
            c \in Completions}
ProviderOutcomes == ProviderErrors \cup ProviderResponses

-----------------------------------------------------------------------------
(* State shared by the specifications *)

NoKey == "<unset>"
NoClient == [api_key |-> NoKey, serial |-> 0]
NoResponse == [type |-> "none"]

\* the process has just started: no client, no temporary file, an empty page
Blank ==
    /\ client_cache = NoClient
    /\ constructed = 0
    /\ client = NoClient
    /\ rendered = <<>>
    /\ model_choice = "gpt-3.5-turbo"
    /\ uploaded_file = NoFile
    /\ analyze = FALSE
    /\ fs = {}
    /\ tmp_file_path = NoPath
    /\ document_text = None
    /\ raised = FALSE
    /\ io_fault = "ok"
    /\ question = <<>>
    /\ get_answer = FALSE
    /\ api_calls = <<>>
    /\ response = NoResponse
    /\ result = None

processVars == <<env_key, secrets_key, client_cache, constructed, client>>
extractVars == <<uploaded_file, fs, tmp_file_path, document_text, raised, io_fault>>
flowVars == <<api_calls, response, result>>
widgetVars == <<model_choice, analyze, question, get_answer>>

\* a name NamedTemporaryFile can use given the files on disk, NoPath if none
FreeNames(files) ==
    IF TmpNames \ files = {} THEN {NoPath} ELSE TmpNames \ files

-----------------------------------------------------------------------------
(* SpecExtract: calls of extract_text_from_pdf on every small payload *)

PageChars == {"a", "b", " "}
PageOutcomes ==
    {Str(s) : s \in SeqsUpTo(PageChars, MaxTextLen)}
    \cup {None, Raise(<<"page cannot be read">>)}
Payloads ==
    {[kind |-> k, pages |-> <<>>] : k \in {"empty", "non_pdf", "corrupt", "encrypted"}}
    \cup {[kind |-> "pdf", pages |-> ps] : ps \in SeqsUpTo(PageOutcomes, MaxPages)}

InitExtract == Blank /\ pc = "idle" /\ env_key = NoKey /\ secrets_key = NoKey

\* the caller calls extract_text_from_pdf(pdf_file) and the call returns
ExtractCall ==
    /\ pc = "idle"
    /\ \E pdf_file \in Payloads, f \in IoFaults, name \in FreeNames(fs) :
         LET r == extract_text_from_pdf(pdf_file, name, f, fs)
         IN  /\ uploaded_file' = pdf_file
             /\ io_fault' = f
             /\ fs' = r.files
             /\ tmp_file_path' = r.path
             /\ document_text' = r.ret
             /\ raised' = r.raised
             /\ rendered' = r.errors
    /\ pc' = "returned"
    /\ UNCHANGED <<processVars, flowVars, widgetVars>>

\* the caller is done with the value; the files on disk stay as they are
ExtractDone ==
    /\ pc = "returned"
    /\ pc' = "idle"
    /\ uploaded_file' = NoFile
    /\ io_fault' = "ok"
    /\ tmp_file_path' = NoPath
    /\ document_text' = None
    /\ rendered' = <<>>
    /\ UNCHANGED <<fs, raised, processVars, flowVars, widgetVars>>

NextExtract == ExtractCall \/ ExtractDone

SpecExtract == InitExtract /\ [][NextExtract]_vars

-----------------------------------------------------------------------------
(* SpecFlows: calls of get_legal_summary and get_legal_answer against every *)
(* behaviour of the provider                                               *)

SomeClient == [api_key |-> "sk-1", serial |-> 1]
FlowTexts ==
    {<<>>, <<"This Agreement shall terminate on 30 days' notice.">>, <<" ">>}

InitFlows == Blank /\ pc = "idle" /\ env_key = NoKey /\ secrets_key = NoKey

CallSummary ==
    /\ \E text \in FlowTexts, model \in Models, r \in ProviderOutcomes :
         LET f == get_legal_summary(SomeClient, text, model, r)
         IN  /\ document_text' = Str(text)
             /\ model_choice' = model
             /\ response' = r
             /\ api_calls' = <<f.call>>
             /\ result' = f.ret
    /\ pc' = "get_legal_summary"
    /\ UNCHANGED <<processVars, rendered, uploaded_file, analyze, fs, tmp_file_path,
                   raised, io_fault, question, get_answer>>

CallAnswer ==
    /\ \E q \in FlowTexts, model \in Models, r \in ProviderOutcomes :
         LET f == get_legal_answer(SomeClient, q, model, r)
         IN  /\ question' = q
             /\ model_choice' = model
             /\ response' = r
             /\ api_calls' = <<f.call>>
             /\ result' = f.ret
    /\ pc' = "get_legal_answer"
    /\ UNCHANGED <<processVars, rendered, uploaded_file, analyze, fs, tmp_file_path,
                   document_text, raised, io_fault, get_answer>>

NextFlows == CallSummary \/ CallAnswer

SpecFlows == InitFlows /\ [][NextFlows]_vars

-----------------------------------------------------------------------------
(* init_openai_client and main *)

ShortTextLimit == 50

\* init_openai_client without the cache in front of it
init_openai_client_uncached(cache, env, secrets, n) ==
    LET api_key == IF env \in {NoKey, ""} THEN secrets ELSE env
    IN  IF api_key = NoKey
        THEN [stop |-> TRUE, client |-> NoClient, cache |-> cache, constructed |-> n,
              errors |-> <<El("error", <<"Please add your OpenAI API key to .streamlit/secrets.toml">>)>>]
        ELSE LET new == [api_key |-> api_key, serial |-> n + 1]
             IN  [stop |-> FALSE, client |-> new, cache |-> new, constructed |-> n + 1,
                  errors |-> <<>>]

\* init_openai_client that builds a client before it looks for the key
init_openai_client_eager(cache, env, secrets, n) ==
    LET api_key == IF env \in {NoKey, ""} THEN secrets ELSE env
        new == [api_key |-> api_key, serial |-> n + 1]
    IN  IF cache # NoClient
        THEN [stop |-> FALSE, client |-> cache, cache |-> cache, constructed |-> n,
              errors |-> <<>>]
        ELSE IF api_key = NoKey
        THEN [stop |-> TRUE, client |-> NoClient, cache |-> NoClient, constructed |-> n + 1,
              errors |-> <<El("error", <<"Please add your OpenAI API key to .streamlit/secrets.toml">>)>>]
        ELSE [stop |-> FALSE, client |-> new, cache |-> new, constructed |-> n + 1,
              errors |-> <<>>]

\* One call of the st.cache_resource-wrapped init_openai_client(): cache is the
\* cached client (NoClient if none), env and secrets the two places a key can
\* be, n the number of clients built so far.  stop is st.stop().
init_openai_client(cache, env, secrets, n) ==
    IF cache # NoClient
    THEN [stop |-> FALSE, client |-> cache, cache |-> cache, constructed |-> n,
          errors |-> <<>>]
    ELSE LET api_key == IF env \in {NoKey, ""} THEN secrets ELSE env
         IN  IF api_key = NoKey
             THEN [stop |-> TRUE, client |-> NoClient, cache |-> NoClient,
                   constructed |-> n,
                   errors |-> <<El("error", <<"Please add your OpenAI API key to .streamlit/secrets.toml">>)>>]
             ELSE LET new == [api_key |-> api_key, serial |-> n + 1]
                  IN  [stop |-> FALSE, client |-> new, cache |-> new,
                       constructed |-> n + 1, errors |-> <<>>]

\* AnalyzeBranch with the length test one short
AnalyzeBranchOffByOne(text) ==
    IF ~Truthy(text) THEN "no_text"
    ELSE IF Len(text.val) < ShortTextLimit - 1 THEN "little_text"
    ELSE "summarize"

\* the if / elif / else on document_text after the extraction
AnalyzeBranch(text) ==
    IF ~Truthy(text) THEN "no_text"
    ELSE IF Len(text.val) < ShortTextLimit THEN "little_text"
    ELSE "summarize"

\* ShouldAnswer without the test of the question
ShouldAnswerAlways(clicked, q) == clicked

\* st.button("Get Answer") and question
ShouldAnswer(clicked, q) == clicked /\ q # <<>>

EnvKeys == {NoKey, "", "sk-env"}
SecretKeys == {NoKey, "sk-secret"}

\* the uploads main() is run on: no PDF, no page, and texts around the limit
SampleDocs ==
    {[kind |-> "non_pdf", pages |-> <<>>],
     [kind |-> "pdf", pages |-> <<>>],
     [kind |-> "pdf", pages |-> <<Str(<<"a", "b", "c">>)>>],
     [kind |-> "pdf", pages |-> <<Str(Rep("a", ShortTextLimit - 1))>>],
     [kind |-> "pdf", pages |-> <<Str(Rep("a", ShortTextLimit))>>]}
MainOutcomes ==
    {Raise(<<"Connection error.">>),
     [type |-> "response", choices |-> <<[message |-> Message(None)]>>],
     [type |-> "response", choices |-> <<[message |-> Message(Str(<<"Summary: ...">>))]>>]}
Questions ==
    {<<>>, <<" ">>, <<"Can my landlord evict me without notice in India?">>}

Init ==
    /\ Blank
    /\ pc = "start"
    /\ env_key \in EnvKeys
    /\ secrets_key \in SecretKeys

\* lines 125-134: title, subheader and the disclaimer
RenderHeader ==
    /\ pc = "start"
    /\ rendered' = rendered \o <<El("title", <<"AI Legal Assistant">>),
                                 El("subheader", <<"Legal Document Analysis & Indian Law Q&A">>),
                                 El("warning", <<"Disclaimer">>)>>
    /\ pc' = "init"
    /\ UNCHANGED <<processVars, extractVars, flowVars, widgetVars>>

\* line 137: client = init_openai_client()
InitClient ==
    /\ pc = "init"
    /\ LET r == init_openai_client(client_cache, env_key, secrets_key, constructed)
       IN  /\ client' = r.client
           /\ client_cache' = r.cache
           /\ constructed' = r.constructed
           /\ rendered' = rendered \o r.errors
           /\ pc' = IF r.stop THEN "halted" ELSE "model"
    /\ UNCHANGED <<env_key, secrets_key, extractVars, flowVars, widgetVars>>

\* lines 140-157: the model selectbox and its note
ModelSelection ==
    /\ pc = "model"
    /\ \E m \in Models :
         /\ model_choice' = m
         /\ rendered' = rendered \o
              <<El("subheader", <<"AI Model Selection">>),
                El("selectbox", <<"Choose AI Model:">>),
                IF m = "gpt-4" THEN El("info", <<"GPT-4 requires a paid OpenAI account">>)
                ELSE El("success", <<"GPT-3.5-turbo works with all OpenAI accounts">>),
                El("divider", <<>>)>>
    /\ pc' = "summarizer"
    /\ UNCHANGED <<processVars, extractVars, flowVars, analyze, question, get_answer>>

SummarizerHead ==
    <<El("header", <<"Document Summarizer">>),
      El("write", <<"Upload a legal PDF document to get a plain-English summary">>),
      El("file_uploader", <<"Choose a PDF file">>)>>

\* lines 162-194: the summarizer column
Summarizer ==
    /\ pc = "summarizer"
    /\ pc' = "qa"
    /\ \E file \in SampleDocs \cup {NoFile}, click \in BOOLEAN :
         /\ uploaded_file' = file
         /\ analyze' = (file # NoFile /\ click)
         /\ IF file = NoFile
            THEN /\ rendered' = rendered \o SummarizerHead
                 /\ UNCHANGED <<fs, tmp_file_path, document_text, raised, io_fault, flowVars>>
            ELSE IF ~click
            THEN /\ rendered' = rendered \o SummarizerHead
                                 \o <<El("success", <<"Uploaded">>), El("button", <<"Analyze Document">>)>>
                 /\ UNCHANGED <<fs, tmp_file_path, document_text, raised, io_fault, flowVars>>
            ELSE \E f \in IoFaults, name \in FreeNames(fs), resp \in MainOutcomes :
                   LET x == extract_text_from_pdf(file, name, f, fs)
                       s == get_legal_summary(client, x.ret.val, model_choice, resp)
                       head == rendered \o SummarizerHead
                                 \o <<El("success", <<"Uploaded">>), El("button", <<"Analyze Document">>)>>
                                 \o x.errors
                   IN  /\ io_fault' = f
                       /\ fs' = x.files
                       /\ tmp_file_path' = x.path
                       /\ document_text' = x.ret
                       /\ raised' = x.raised
                       /\ IF AnalyzeBranch(x.ret) = "no_text"
                          THEN /\ rendered' = head \o <<El("error", <<"No text found in the PDF.">>)>>
                               /\ UNCHANGED flowVars
                          ELSE IF AnalyzeBranch(x.ret) = "little_text"
                          THEN /\ rendered' = head \o <<El("warning", <<"Very little text extracted.">>)>>
                               /\ UNCHANGED flowVars
                          ELSE /\ api_calls' = Append(api_calls, s.call)
                               /\ response' = resp
                               /\ result' = s.ret
                               /\ rendered' = head \o
                                    <<El("success", <<"Extracted characters">>),
                                      El("subheader", <<"Document Summary">>),
                                      El("write", <<"summary">>),
                                      El("text_area", <<"Raw Text">>)>>
    /\ UNCHANGED <<processVars, model_choice, question, get_answer>>

QaHead ==
    <<El("header", <<"Legal Q&A">>),
      El("write", <<"Ask questions about Indian law and get AI-generated answers">>),
      El("subheader", <<"Example Questions">>),
      El("selectbox", <<"Choose an example question:">>),
      El("text_area", <<"Your Legal Question">>),
      El("button", <<"Get Answer">>)>>

\* lines 196-232: the Q&A column
QA ==
    /\ pc = "qa"
    /\ pc' = "sidebar"
    /\ \E q \in Questions, click \in BOOLEAN :
         /\ question' = q
         /\ get_answer' = click
         /\ IF ShouldAnswer(click, q)
            THEN \E resp \in MainOutcomes :
                   LET a == get_legal_answer(client, q, model_choice, resp)
                   IN  /\ api_calls' = Append(api_calls, a.call)
                       /\ response' = resp
                       /\ result' = a.ret
                       /\ rendered' = rendered \o QaHead
                            \o <<El("subheader", <<"Answer">>), El("write", <<"answer">>)>>
            ELSE /\ rendered' = rendered \o QaHead
                 /\ UNCHANGED flowVars
    /\ UNCHANGED <<processVars, extractVars, model_choice, analyze>>

\* lines 235-269: the sidebar; the run ends
Sidebar ==
    /\ pc = "sidebar"
    /\ rendered' = rendered \o <<El("sidebar", <<"About">>)>>
    /\ pc' = "done"
    /\ UNCHANGED <<processVars, extractVars, flowVars, widgetVars>>

\* an interaction re-runs the script from the top, in the same process; the
\* environment and the secrets file may have changed in between
Rerun ==
    /\ pc \in {"done", "halted"}
    /\ pc' = "start"
    /\ env_key' \in EnvKeys
    /\ secrets_key' \in SecretKeys
    /\ client' = NoClient
    /\ rendered' = <<>>
    /\ model_choice' = "gpt-3.5-turbo"
    /\ uploaded_file' = NoFile
    /\ analyze' = FALSE
    /\ tmp_file_path' = NoPath
    /\ document_text' = None
    /\ io_fault' = "ok"
    /\ question' = <<>>
    /\ get_answer' = FALSE
    /\ api_calls' = <<>>
    /\ response' = NoResponse
    /\ result' = None
    /\ UNCHANGED <<client_cache, constructed, fs, raised>>

Next ==
    \/ RenderHeader
    \/ InitClient
    \/ ModelSelection
    \/ Summarizer
    \/ QA
    \/ Sidebar
    \/ Rerun

Spec == Init /\ [][Next]_vars

-----------------------------------------------------------------------------
(* Properties of main and init_openai_client, under Spec *)

Calls(fn) == {i \in DOMAIN api_calls : api_calls[i].fn = fn}
Shown(kind, body) == \E i \in DOMAIN rendered : rendered[i] = El(kind, body)
Kinds(els) == [i \in DOMAIN els |-> els[i].kind]

\* the summarizer column of this run is over and Analyze ran on a text that
\* is non-empty and shorter than the limit
ShortTextAnalyzed ==
    /\ pc \in {"qa", "sidebar", "done"}
    /\ analyze
    /\ document_text.type = "str"
    /\ Len(document_text.val) > 0
    /\ Len(document_text.val) < 50

\* C4 as stated: on such a text the warning is shown and a summarizer call is
\* issued all the same.
C4_AsStated ==
    ShortTextAnalyzed =>
        /\ Shown("warning", <<"Very little text extracted.">>)
        /\ Calls("get_legal_summary") # {}

\* C4 amended: on such a text the warning is shown and summarization is
\* skipped: no summarizer call is issued and no summary is shown.
C4_ShortTextSkipped ==
    ShortTextAnalyzed =>
        /\ Shown("warning", <<"Very little text extracted.">>)
        /\ Calls("get_legal_summary") = {}
        /\ ~Shown("subheader", <<"Document Summary">>)

\* Analyze ran on a text one character under the limit
C4_Witness ==
    ShortTextAnalyzed /\ Len(document_text.val) = 49

IsBlank(q) == \A i \in DOMAIN q : q[i] \in Whitespace

\* C5 as stated: Get Answer on an empty or whitespace-only question issues no
\* Q&A call.
C5_AsStated ==
    (pc \in {"sidebar", "done"} /\ get_answer /\ IsBlank(question)) =>
        Calls("get_legal_answer") = {}

\* C5 amended: a Q&A call is issued only when Get Answer was clicked with a
\* question that is not the empty string, and it carries that question; Get
\* Answer on the empty string issues none.  (A whitespace-only question is
\* not empty and is sent.)
C5_NoCallForEmpty ==
    /\ \A i \in Calls("get_legal_answer") :
         /\ get_answer
         /\ question # <<>>
         /\ api_calls[i].request.messages[2].content = question
    /\ (pc \in {"sidebar", "done"} /\ get_answer /\ question = <<>>) =>
         Calls("get_legal_answer") = {}

\* Get Answer was clicked on the empty question and the column is over
C5_Witness ==
    /\ pc \in {"sidebar", "done"}
    /\ get_answer
    /\ question = <<>>
    /\ Calls("get_legal_answer") = {}

\* C6 as stated: when the run halts for a missing credential nothing of the
\* main interface has been rendered and no client has been constructed.
C6_AsStated ==
    pc = "halted" =>
        /\ \A i \in DOMAIN rendered : rendered[i].kind = "error"
        /\ client_cache = NoClient
        /\ constructed = 0

\* C6 amended: when the run halts for a missing credential the title, the
\* subheader and the disclaimer have been rendered, followed by the error;
\* nothing from the model selection on has been, and no client has been
\* constructed.
C6_HaltAfterHeader ==
    pc = "halted" =>
        /\ Kinds(rendered) = <<"title", "subheader", "warning", "error">>
        /\ client = NoClient
        /\ client_cache = NoClient
        /\ constructed = 0
        /\ api_calls = <<>>

\* a run halted with an environment variable that is set but empty
C6_Witness ==
    pc = "halted" /\ env_key = "" /\ secrets_key = NoKey

HasKey == env_key \notin {NoKey, ""} \/ secrets_key # NoKey

C9_Step ==
    /\ constructed' <= 1
    /\ client_cache # NoClient =>
         /\ client_cache' = client_cache
         /\ constructed' = constructed
    /\ (client_cache = NoClient /\ client_cache' # NoClient) =>
         /\ pc = "init"
         /\ constructed' = constructed + 1
         /\ client_cache'.api_key # NoKey
         /\ client_cache'.api_key =
              IF env_key \notin {NoKey, ""} THEN env_key ELSE secrets_key
    /\ (pc = "init" /\ client_cache = NoClient /\ HasKey) => client_cache' # NoClient
    /\ (pc = "init" /\ pc' = "model") => client' = client_cache'
    /\ pc' = "halted" => (client_cache' = NoClient /\ constructed' = constructed)

\* C9: over any sequence of runs at most one client is constructed: the first
\* init_openai_client call that finds a key (environment first, secrets
\* second) builds and caches it, every later call returns that client
\* whatever the environment and the secrets are by then, and a call that
\* halts caches nothing.
C9_SingleClient == [][C9_Step]_vars

\* a later run got the cached client although its key is no longer configured
C9_Witness ==
    /\ pc = "model"
    /\ client = client_cache
    /\ client.api_key = "sk-env"
    /\ env_key = NoKey
    /\ constructed = 1

-----------------------------------------------------------------------------
(* Properties of extract_text_from_pdf, under SpecExtract *)

\* some step of the last extraction failed
ProcessingError ==
    \/ io_fault # "ok"
    \/ tmp_file_path = NoPath
    \/ uploaded_file.kind # "pdf"
    \/ \E i \in DOMAIN uploaded_file.pages : uploaded_file.pages[i].type = "raise"

\* the texts of the pages that yielded text, in page order
Segments(pages) == SelectSeq(pages, Truthy)

RECURSIVE JoinLines(_)
JoinLines(segs) ==
    IF segs = <<>> THEN <<>>
    ELSE IF Len(segs) = 1 THEN segs[1].val
    ELSE segs[1].val \o <<"\n">> \o JoinLines(Tail(segs))

NoOuterWhitespace(s) ==
    s = <<>> \/ (s[1] \notin Whitespace /\ s[Len(s)] \notin Whitespace)

HasVisibleText(p) ==
    p.type = "str" /\ \E i \in DOMAIN p.val : p.val[i] \notin Whitespace

\* C1: when a call of extract_text_from_pdf returns, on the success path and
\* on every failure path, the temporary file that call created is gone.
C1_TempFileDeleted ==
    pc = "returned" => tmp_file_path \notin fs

\* C2: extract_text_from_pdf never raises to its caller, and a processing
\* error at any step gives the empty string together with an st.error notice.
C2_NeverRaises ==
    pc = "returned" =>
        /\ ~raised
        /\ document_text.type = "str"
        /\ ProcessingError =>
             /\ document_text = Str(<<>>)
             /\ Len(rendered) = 1
             /\ rendered[1].kind = "error"
             /\ StartsWith(rendered[1].body, <<"Error extracting text from PDF: ">>)

\* a payload that is no PDF was extracted: empty string, one error notice
C2_Witness ==
    /\ pc = "returned"
    /\ uploaded_file.kind = "non_pdf"
    /\ document_text = Str(<<>>)
    /\ rendered # <<>>

\* C8 as stated: whenever some page yields text the result is non-empty, is
\* the page texts in page order, one newline between consecutive ones and
\* nothing for textless pages, with the surrounding whitespace trimmed; with
\* no such page the result is empty.
C8_AsStated ==
    (pc = "returned" /\ ~ProcessingError) =>
        LET segs == Segments(uploaded_file.pages)
        IN  IF segs # <<>>
            THEN /\ document_text.val # <<>>
                 /\ document_text.val = Strip(JoinLines(segs))
                 /\ NoOuterWhitespace(document_text.val)
            ELSE document_text.val = <<>>

\* C8 amended: the result is the non-empty page texts in page order joined by
\* single newlines and trimmed; it is non-empty exactly when some page text
\* has a character that is not whitespace.
C8_Extraction ==
    (pc = "returned" /\ ~ProcessingError) =>
        LET segs == Segments(uploaded_file.pages)
        IN  /\ document_text.val = Strip(JoinLines(segs))
            /\ NoOuterWhitespace(document_text.val)
            /\ document_text.val # <<>> <=>
                 \E i \in DOMAIN uploaded_file.pages :
                    HasVisibleText(uploaded_file.pages[i])

\* two pages with text around a textless one, and whitespace that was trimmed
C8_Witness ==
    /\ pc = "returned"
    /\ ~ProcessingError
    /\ Len(Segments(uploaded_file.pages)) >= 2
    /\ Len(Segments(uploaded_file.pages)) < Len(uploaded_file.pages)
    /\ document_text.val # <<>>
    /\ document_text.val # JoinLines(Segments(uploaded_file.pages))

-----------------------------------------------------------------------------
(* Properties of get_legal_summary and get_legal_answer, under SpecFlows *)

InFlow == pc \in {"get_legal_summary", "get_legal_answer"}
Marker == IF pc = "get_legal_summary" THEN SummaryMarker ELSE AnswerMarker

\* the provider call, or reading the completion out of its response, raised
CallRaised ==
    \/ response.type = "raise"
    \/ /\ response.type = "response"
       /\ \/ response.choices = <<>>
          \/ response.choices[1].message.type = "None"

\* the response has a first message with no completion text in it
NoCompletionText ==
    /\ response.type = "response"
    /\ response.choices # <<>>
    /\ response.choices[1].message.type = "message"
    /\ response.choices[1].message.content.type = "None"

\* C3: whenever the provider call fails (an exception, an empty choices list,
\* a missing completion text) the flow returns its marker followed by the
\* error detail.
C3_FailureGivesMarker ==
    (InFlow /\ (CallRaised \/ NoCompletionText)) =>
        /\ result.type = "str"
        /\ StartsWith(result.val, Marker)

\* C7: every request has exactly one system message followed by one user
\* message, and max_tokens and temperature are those of its flow whatever the
\* model; the model choice is passed as the model id and changes nothing else.
C7_RequestShape ==
    \A i \in DOMAIN api_calls :
        LET call == api_calls[i]
            r == call.request
            summary == call.fn = "get_legal_summary"
        IN  /\ DOMAIN r = {"model", "messages", "max_tokens", "temperature"}
            /\ Len(r.messages) = 2
            /\ r.messages[1].role = "system"
            /\ r.messages[2].role = "user"
            /\ r.messages[1].content =
                 IF summary THEN SummarySystemPrompt ELSE AnswerSystemPrompt
            /\ r.max_tokens = IF summary THEN 1500 ELSE 1000
            /\ r.temperature = "0.3"
            /\ r.model = call.model
            /\ r.messages[2].content =
                 IF summary THEN SummaryUserPrefix \o document_text.val ELSE question

\* a summary request was built for gpt-4 with the summary flow's parameters
C7_Witness ==
    /\ InFlow
    /\ api_calls # <<>>
    /\ api_calls[1].model = "gpt-4"
    /\ api_calls[1].fn = "get_legal_summary"
    /\ api_calls[1].request.max_tokens = 1500

\* C10 as stated: the result begins with the flow's marker if and only if the
\* provider call failed, and on success it is the completion text unmodified.
C10_AsStated ==
    InFlow =>
        /\ (result.type = "str" /\ StartsWith(result.val, Marker)) <=> CallRaised
        /\ ~CallRaised => result = response.choices[1].message.content

\* C10 amended: a failed provider call gives the marker followed by the error
\* detail, and otherwise the result is choices[0].message.content unmodified;
\* so a result without the marker is never a failure, while a result with
\* the marker is a failure or a completion that itself begins with it.
C10_MarkerOnFailure ==
    InFlow =>
        /\ CallRaised => (result.type = "str" /\ StartsWith(result.val, Marker))
        /\ response.type = "raise" => result = Str(Marker \o response.val)
        /\ ~CallRaised => result = response.choices[1].message.content

\* a provider error was turned into the marker and its detail
C10_Witness ==
    /\ InFlow
    /\ response.type = "raise"
    /\ response.val # <<>>
    /\ result = Str(Marker \o response.val)

====
